---------------------------- MODULE Spec2Model ----------------------------
(***************************************************************************)
(* A model of the jahsper granular-synthesis engine:                       *)
(*   src/src/engine.py  Grain, Voice, GlobalClock, GrainScheduler, Engine  *)
(*   src/main.py        audio_callback, MidiInputHandler, the main loop    *)
(*   src/web/app.py     the /set_bpm and /tap handlers                     *)
(*                                                                         *)
(* Python floats are modelled as exact rationals [n, d] (d > 0, lowest     *)
(* terms); numpy int16 arrays are sequences of integers that wrap modulo   *)
(* 2^16 on addition, as numpy's in-place += on int16 does.                 *)
(***************************************************************************)
EXTENDS Integers, Sequences, FiniteSets, TLC

(***************************************************************************)
(* Bounds of the model (not program constants).                            *)
(***************************************************************************)
MaxVoices == 2     \* voices added before the stream starts
MaxBlocks == 2     \* audio callbacks per run
MaxTime   == 2     \* readings of time.time() lie in 1..MaxTime
MaxBuf    == 4     \* SpecGrain: longest source buffer
MaxGrainLen == 3   \* SpecGrain: longest grain
MaxChunk  == 3     \* SpecGrain: largest get_chunk(size) request
MaxTaps   == 7     \* SpecTap: tap messages handled per run

(***************************************************************************)
(* Program constants.                                                      *)
(***************************************************************************)
MainSamplerate == 44100        \* main.py:155
MainBpm == 120                 \* main.py:156
DefaultGrainLengthMs == 80     \* engine.py:31
DefaultGrainRateHz == 25       \* engine.py:31
TapNote == 41                  \* main.py:99
MaxTapTimes == 4               \* main.py:106
MinTapTimes == 2               \* main.py:109
SecondsPerMinute == 60         \* engine.py:76, main.py:111
SpawnGrainParams == 0          \* engine.py:45: def spawn_grain() declares no parameter
BoundCallArgs == 1             \* engine.py:37,97: self.spawn_grain, called with no
                               \* argument, passes the instance as one positional argument
Int16Bits == 16                \* engine.py:60,112: dtype=np.int16

(***************************************************************************)
(* Exact rationals for Python floats.                                      *)
(***************************************************************************)
Abs(x) == IF x < 0 THEN -x ELSE x

RECURSIVE GCD(_, _)
GCD(a, b) == IF b = 0 THEN a ELSE GCD(b, a % b)

\* n/d in lowest terms with a positive denominator (d # 0)
Rat(n, d) ==
  LET g == GCD(Abs(n), Abs(d))
      s == IF d < 0 THEN -1 ELSE 1
  IN  [n |-> (s * n) \div g, d |-> (s * d) \div g]

RInt(k) == [n |-> k, d |-> 1]
RMul(a, b) == Rat(a.n * b.n, a.d * b.d)
RDiv(a, b) == Rat(a.n * b.d, a.d * b.n)      \* b.n # 0
RSub(a, b) == Rat(a.n * b.d - b.n * a.d, a.d * b.d)
RLeq(a, b) == a.n * b.d <= b.n * a.d
RPos(a) == a.n > 0
\* int(x) and ndarray.astype(int): truncation toward zero
Trunc(a) == IF a.n >= 0 THEN a.n \div a.d ELSE -((-a.n) \div a.d)

(***************************************************************************)
(* numpy int16 arithmetic.                                                 *)
(***************************************************************************)
Int16Min == -(2 ^ (Int16Bits - 1))
Int16Max == 2 ^ (Int16Bits - 1) - 1
\* the value an int16 slot holds after an in-place addition gave x
Wrap16(x) == ((x - Int16Min) % (2 ^ Int16Bits)) + Int16Min
\* mutant of Zeros: np.empty in place of np.zeros, the block starts out as
\* whatever the memory held
Uninitialised(size) == [i \in 1..size |-> 1]

\* np.zeros(size, dtype=np.int16), size >= 0
Zeros(size) == [i \in 1..size |-> 0]


(***************************************************************************)
(* A numpy float array (the source buffer returned by sf.read, shared by   *)
(* reference between a Voice and its Grains): `len` samples whose initial  *)
(* content repeats `period`, and `wr`, the samples written in place since  *)
(* (index -> value).  Indices are 0-based as in Python.                    *)
(***************************************************************************)
Array(period, len) == [len |-> len, period |-> period, wr |-> <<>>]

Sample(ad, i) ==
  IF i \in DOMAIN ad.wr THEN ad.wr[i] ELSE ad.period[(i % Len(ad.period)) + 1]

Min(a, b) == IF a <= b THEN a ELSE b

(***************************************************************************)
(* np.hanning(M) (engine.py:35), as rationals, for the lengths whose       *)
(* window values are rational; no other length is ever evaluated.          *)
(***************************************************************************)
Hanning(M) ==
  CASE M <= 0 -> <<>>
    [] M = 1 -> <<RInt(1)>>
    [] M = 2 -> <<RInt(0), RInt(0)>>
    [] M = 3 -> <<RInt(0), RInt(1), RInt(0)>>
    [] M = 4 -> <<RInt(0), Rat(3, 4), Rat(3, 4), RInt(0)>>
    [] M = 5 -> <<RInt(0), Rat(1, 2), RInt(1), Rat(1, 2), RInt(0)>>

(***************************************************************************)
(* Grain (engine.py:5-27).  A grain is [start_pos, length, current_pos];   *)
(* its buffer and envelope are passed in, since they are references to     *)
(* arrays the grain does not own.                                          *)
(***************************************************************************)
NewGrain(start_pos, length) ==
  [start_pos |-> start_pos, length |-> length, current_pos |-> 0]

\* the part [start:stop] of an array of `len` elements, 0 <= start <= stop:
\* a slice is clamped to the array's end, it never raises
Slice(len, start, stop) == [lo |-> Min(start, len), hi |-> Min(stop, len)]

\* one element of chunk * envelope[...]; an envelope slice of one element is
\* broadcast over the chunk
Product(ad, env, bs, es, j) ==
  RMul(Sample(ad, bs.lo + j - 1),
       env[es.lo + (IF es.hi - es.lo = 1 THEN 1 ELSE j)])

\* `chunk *= envelope[...]` and `current_pos += chunk_size` (engine.py:24-27).
\* chunk is a view of the buffer (slice bs), so the product is written into
\* the buffer; an envelope slice (es) that cannot be broadcast to the chunk's
\* length raises ValueError before anything is written
ApplyEnvelope(ad, env, g, chunk_size, bs, es) ==
  IF es.hi - es.lo # bs.hi - bs.lo /\ es.hi - es.lo # 1
    THEN [status |-> "ValueError", chunk |-> <<>>, ad |-> ad, g |-> g]
    ELSE [status |-> "chunk",
          chunk  |-> [j \in 1..(bs.hi - bs.lo) |-> Product(ad, env, bs, es, j)],
          ad     |-> [ad EXCEPT !.wr =
                        [i \in (DOMAIN ad.wr) \cup (bs.lo..(bs.hi - 1)) |->
                           IF i \in bs.lo..(bs.hi - 1)
                             THEN Product(ad, env, bs, es, i - bs.lo + 1)
                             ELSE ad.wr[i]]],
          g      |-> [g EXCEPT !.current_pos = g.current_pos + chunk_size]]

\* engine.py:21: the two slices taken for a chunk of chunk_size samples
ReadChunk(ad, env, g, chunk_size) ==
  ApplyEnvelope(ad, env, g, chunk_size,
    Slice(ad.len, g.start_pos + g.current_pos,
                  g.start_pos + g.current_pos + chunk_size),
    Slice(Len(env), g.current_pos, g.current_pos + chunk_size))

\* mutant of GetChunk: the request is not limited to what remains of the grain
GetChunkUnclamped(ad, env, g, size) ==
  IF g.length - g.current_pos = 0
    THEN [status |-> "None", chunk |-> <<>>, ad |-> ad, g |-> g]
    ELSE ReadChunk(ad, env, g, size)

\* Grain.get_chunk(size), size >= 0, start_pos >= 0:
\* [status ("None", "chunk", "ValueError"), chunk, ad, g]
GetChunk(ad, env, g, size) ==
  IF g.length - g.current_pos = 0
    THEN [status |-> "None", chunk |-> <<>>, ad |-> ad, g |-> g]
    ELSE ReadChunk(ad, env, g, Min(size, g.length - g.current_pos))

(***************************************************************************)
(* GrainScheduler (engine.py:84-98) and Voice (engine.py:29-69).           *)
(* `generated`, `spawn_calls` and `spawned` are history fields: the        *)
(* samples returned so far, the spawn callbacks invoked and completed.     *)
(***************************************************************************)
NewGrainScheduler(samplerate, grain_rate_hz) ==
  [samplerate |-> samplerate,
   grain_rate_hz |-> grain_rate_hz,
   samples_per_grain_interval |-> Rat(samplerate, grain_rate_hz),
   samples_until_next_grain   |-> Rat(samplerate, grain_rate_hz)]

\* int(samplerate * (grain_length_ms / 1000))  (engine.py:33)
GrainLength(samplerate, grain_length_ms) ==
  Trunc(RMul(RInt(samplerate), Rat(grain_length_ms, 1000)))

\* Voice(audio_file) with the default grain_length_ms and grain_rate_hz;
\* file is what sf.read returns: [data, samplerate]
NewVoice(file) ==
  [audio_data |-> file.data,
   samplerate |-> file.samplerate,
   grain_length |-> GrainLength(file.samplerate, DefaultGrainLengthMs),
   grain_rate_hz |-> DefaultGrainRateHz,
   active_grains |-> <<>>,
   grain_scheduler |-> NewGrainScheduler(file.samplerate, DefaultGrainRateHz),
   position |-> 0,
   generated |-> 0, spawn_calls |-> 0, spawned |-> 0]

\* engine.py:52-54: the spawn position after a grain was spawned at `position`
NextPosition(position, grain_length, len) ==
  IF position + Trunc(RMul(RInt(grain_length), Rat(1, 2))) + grain_length >= len
    THEN 0
    ELSE position + Trunc(RMul(RInt(grain_length), Rat(1, 2)))

\* the body of spawn_grain (engine.py:47-54)
SpawnGrainBody(v) ==
  [v EXCEPT !.active_grains = Append(@, NewGrain(v.position, v.grain_length)),
            !.position = NextPosition(v.position, v.grain_length, v.audio_data.len),
            !.spawned = @ + 1]

\* self.spawn_callback() (engine.py:97): the bound method passes the instance
\* to a function declared without parameters, so the call raises TypeError
\* before the body runs
SpawnCallback(v) ==
  IF BoundCallArgs = SpawnGrainParams
    THEN [raised |-> "none", v |-> SpawnGrainBody([v EXCEPT !.spawn_calls = @ + 1])]
    ELSE [raised |-> "TypeError", v |-> [v EXCEPT !.spawn_calls = @ + 1]]

\* engine.py:98: the countdown is reset only after the callback returned
SchedulerReset(r) ==
  IF r.raised # "none" THEN r
  ELSE [r EXCEPT !.v.grain_scheduler.samples_until_next_grain =
                    r.v.grain_scheduler.samples_per_grain_interval]

\* engine.py:96-98, v being the voice after the decrement
SchedulerFire(v) ==
  IF RLeq(v.grain_scheduler.samples_until_next_grain, RInt(0))
    THEN SchedulerReset(SpawnCallback(v))
    ELSE [raised |-> "none", v |-> v]

\* GrainScheduler.tick(): one decrement per call
SchedulerTick(v) ==
  SchedulerFire([v EXCEPT !.grain_scheduler.samples_until_next_grain =
                            RSub(@, RInt(1))])

\* output_buffer[:len(chunk)] += chunk.astype(np.int16)  (engine.py:65)
AddChunk(output_buffer, chunk) ==
  [i \in 1..Len(output_buffer) |->
     IF i <= Len(chunk) THEN Wrap16(output_buffer[i] + Trunc(chunk[i]))
                        ELSE output_buffer[i]]

\* history: the same sum in unbounded integers
WideAddChunk(wide, chunk) ==
  [i \in 1..Len(wide) |->
     IF i <= Len(chunk) THEN wide[i] + Trunc(chunk[i]) ELSE wide[i]]

\* one pass of the loop body (engine.py:63-67) for copy[i], r being what its
\* get_chunk returned; st = [raised, ad, grains, block, wide], grains being
\* the grains that stay in active_grains
MixGrain(st, copy, i, r) ==
  CASE r.status = "ValueError" ->
         [st EXCEPT !.raised = "ValueError", !.grains = @ \o SubSeq(copy, i, Len(copy))]
    [] r.status = "None" -> st
    [] r.status = "chunk" ->
         [st EXCEPT !.ad = r.ad, !.grains = Append(@, r.g),
                    !.block = AddChunk(@, r.chunk),
                    !.wide = WideAddChunk(@, r.chunk)]

\* the loop over active_grains[:] (engine.py:62-67), from the i-th grain on
RECURSIVE MixGrains(_, _, _, _, _)
MixGrains(copy, i, grain_length, chunk_size, st) ==
  IF i > Len(copy) \/ st.raised # "none" THEN st
  ELSE MixGrains(copy, i + 1, grain_length, chunk_size,
         MixGrain(st, copy, i,
                  GetChunk(st.ad, Hanning(grain_length), copy[i], chunk_size)))

\* engine.py:69: what the call returns, st being the loop's result
VoiceResult(v, st, chunk_size) ==
  IF st.raised # "none"
    THEN [raised |-> st.raised,
          v |-> [v EXCEPT !.audio_data = st.ad, !.active_grains = st.grains],
          block |-> <<>>, wide |-> <<>>]
    ELSE [raised |-> "none",
          v |-> [v EXCEPT !.audio_data = st.ad, !.active_grains = st.grains,
                          !.generated = @ + chunk_size],
          block |-> st.block, wide |-> st.wide]

\* engine.py:60-67, t being what the scheduler's tick left
VoiceMix(t, chunk_size) ==
  IF t.raised # "none"
    THEN [raised |-> t.raised, v |-> t.v, block |-> <<>>, wide |-> <<>>]
  ELSE VoiceResult(t.v,
         MixGrains(t.v.active_grains, 1, t.v.grain_length, chunk_size,
                   [raised |-> "none", ad |-> t.v.audio_data, grains |-> <<>>,
                    block |-> Zeros(chunk_size), wide |-> Zeros(chunk_size)]),
         chunk_size)

\* Voice.get_audio_chunk(chunk_size), chunk_size >= 0: [raised, v, block, wide]
VoiceGetAudioChunk(v, chunk_size) == VoiceMix(SchedulerTick(v), chunk_size)

(***************************************************************************)
(* GlobalClock (engine.py:71-82) and Engine (engine.py:100-115).           *)
(***************************************************************************)
NewGlobalClock(samplerate, bpm) ==
  [samplerate |-> samplerate,
   bpm |-> bpm,
   samples_per_beat |-> RDiv(RInt(samplerate * SecondsPerMinute), bpm),
   current_sample |-> 0,
   current_beat |-> RInt(0)]

\* GlobalClock.tick(frames)
ClockTick(c, frames) ==
  [c EXCEPT !.current_sample = c.current_sample + frames,
            !.current_beat = RDiv(RInt(c.current_sample + frames), c.samples_per_beat)]

\* output_buffer += voice.get_audio_chunk(frames)  (engine.py:114), int16
AddBlock(output_buffer, block) ==
  [i \in 1..Len(output_buffer) |-> Wrap16(output_buffer[i] + block[i])]

\* history: the same sum in unbounded integers
WideAddBlock(wide, block) == [i \in 1..Len(wide) |-> wide[i] + block[i]]

\* one pass of the loop body (engine.py:114) for the i-th voice, r being what
\* its get_audio_chunk returned; st = [raised, vs, block, wide]
MixVoice(st, i, r) ==
  IF r.raised # "none"
    THEN [st EXCEPT !.raised = r.raised, !.vs[i] = r.v]
    ELSE [st EXCEPT !.vs[i] = r.v, !.block = AddBlock(@, r.block),
                    !.wide = WideAddBlock(@, r.wide)]

\* the loop over self.voices (engine.py:113-114), from the i-th voice on
RECURSIVE MixVoices(_, _, _)
MixVoices(i, frames, st) ==
  IF i > Len(st.vs) \/ st.raised # "none" THEN st
  ELSE MixVoices(i + 1, frames,
                 MixVoice(st, i, VoiceGetAudioChunk(st.vs[i], frames)))

\* engine.py:115: what the call leaves, st being the loop's result
EngineResult(clock, st) ==
  [raised |-> st.raised, clock |-> clock, vs |-> st.vs,
   block |-> IF st.raised = "none" THEN st.block ELSE <<>>,
   wide  |-> IF st.raised = "none" THEN st.wide ELSE <<>>]

\* Engine.get_audio_chunk(frames), frames >= 0: [raised, clock, vs, block, wide]
EngineGetAudioChunk(clock, vs, frames) ==
  EngineResult(ClockTick(clock, frames),
               MixVoices(1, frames,
                 [raised |-> "none", vs |-> vs, block |-> Zeros(frames),
                  wide |-> Zeros(frames)]))

(***************************************************************************)
(* HTTP and MIDI inputs.                                                   *)
(***************************************************************************)
\* the JSON value under "bpm" in a POST /set_bpm body
JsonNum(k)  == [kind |-> "num",  num |-> k, text |-> ""]
JsonStr(t)  == [kind |-> "str",  num |-> 0, text |-> t]
JsonNull    == [kind |-> "null", num |-> 0, text |-> ""]
NoArg       == [kind |-> "none", num |-> 0, text |-> ""]

BpmInputs == {JsonNum(-60), JsonNum(0), JsonNum(60), JsonStr("0"), JsonStr("abc"), JsonNull}

\* Python truth value of the JSON value (app.py:55, `if new_bpm and engine`)
Truthy(x) ==
  CASE x.kind = "num" -> x.num # 0
    [] x.kind = "str" -> x.text # ""
    [] OTHER -> FALSE

\* float(new_bpm) (app.py:56): a number converts; a string is parsed, and a
\* string that is no number raises ValueError
Float(x) ==
  CASE x.kind = "num" -> [ok |-> TRUE, val |-> RInt(x.num)]
    [] x.kind = "str" /\ x.text = "0" -> [ok |-> TRUE, val |-> RInt(0)]
    [] OTHER -> [ok |-> FALSE, val |-> RInt(0)]

\* what midi_callback receives: [type, note, velocity]
Msg(type, note, velocity) == [type |-> type, note |-> note, velocity |-> velocity]
WebTapMessage == Msg("note_on", TapNote, 100)                    \* app.py:46
MidiMessages == {Msg("note_on", TapNote, 100), Msg("note_on", TapNote, 0),
                 Msg("note_on", 60, 100), Msg("note_off", TapNote, 0)}

\* sf.read(audio_file): the decoded samples and the file's sample rate
Tone == <<RInt(0), Rat(1, 2), RInt(0), Rat(-1, 2)>>
\* (a buffer shorter than one grain, and one longer than one grain)
Files == {[data |-> Array(Tone, 1), samplerate |-> 25],
          [data |-> Array(Tone, 6), samplerate |-> 50]}
\* block sizes the audio device asks for
Frames == {0, 1, 4}
\* psutil.cpu_percent()
CpuReadings == {50}

(***************************************************************************)
(* State.                                                                  *)
(***************************************************************************)
VARIABLES
  global_clock,    \* engine.global_clock
  voices,          \* engine.voices
  cpu_usage,       \* engine.cpu_usage: [set, value], an attribute the engine
                   \* does not have until the main loop first writes it
  stream,          \* the sd.OutputStream: "setup", "active", "aborted"
  out,             \* the last Engine.get_audio_chunk call: [status, frames, block]
                   \* and, as history, wide: the block summed without wrapping
  blocks,          \* audio callbacks so far
  last_tap_time,   \* midi_handler.last_tap_time
  tap_times,       \* midi_handler.tap_times
  last,            \* history: the last step's [thread, op, arg, status]
  bench,           \* SpecGrain: a Grain under direct get_chunk calls
  calls            \* SpecTap: the midi_callback activations in progress, one per
                   \* thread, with their local variables, and the time.time() clock

vars == <<global_clock, voices, cpu_usage, stream, out, blocks,
          last_tap_time, tap_times, last, bench, calls>>

Step(thread, op, arg, status) ==
  [thread |-> thread, op |-> op, arg |-> arg, status |-> status]

Unset == [set |-> FALSE, value |-> 0]
NoBench == [used |-> FALSE]
\* the threads that run midi_callback: the MIDI port's callback thread and a
\* web request thread serving /tap
TapThreads == {"midi", "web"}
\* a thread that is not inside midi_callback
Idle == [pc |-> "idle", current_time |-> 0, interval |-> 0, new_bpm |-> RInt(0),
         index |-> 0]
NoCalls == [now |-> 1, taps |-> 0, th |-> [t \in TapThreads |-> Idle]]
NoOutput == [status |-> "none", frames |-> 0, block |-> <<>>, wide |-> <<>>]

\* main.py:155-158, 164: Engine(samplerate, bpm), MidiInputHandler(engine)
Init ==
  /\ global_clock = NewGlobalClock(MainSamplerate, RInt(MainBpm))
  /\ voices = <<>>
  /\ cpu_usage = Unset
  /\ stream = "setup"
  /\ out = NoOutput
  /\ blocks = 0
  /\ last_tap_time = 0
  /\ tap_times = <<>>
  /\ last = Step("main", "init", NoArg, "ok")
  /\ bench = NoBench
  /\ calls = NoCalls

\* main.py:161-162: engine.add_voice(Voice(file)), before the stream exists
AddVoice ==
  /\ stream = "setup"
  /\ Len(voices) < MaxVoices
  /\ \E f \in Files : voices' = Append(voices, NewVoice(f))
  /\ last' = Step("main", "add_voice", NoArg, "ok")
  /\ UNCHANGED <<global_clock, cpu_usage, stream, out, blocks, last_tap_time,
                 tap_times, bench, calls>>

\* main.py:165-178: the MIDI callback is registered, the web thread started
\* and the output stream opened
StartStream ==
  /\ stream = "setup"
  /\ stream' = "active"
  /\ last' = Step("main", "start", NoArg, "ok")
  /\ UNCHANGED <<global_clock, voices, cpu_usage, out, blocks, last_tap_time,
                 tap_times, bench, calls>>

\* audio_callback (main.py:18-22) for a block of `frames` samples; an
\* exception leaving the callback aborts the stream
AudioCallbackOf(F) ==
  /\ stream = "active"
  /\ blocks < MaxBlocks
  /\ \E frames \in F :
       \E r \in {EngineGetAudioChunk(global_clock, voices, frames)} :
           /\ global_clock' = r.clock
           /\ voices' = r.vs
           /\ out' = [status |-> IF r.raised = "none" THEN "ok" ELSE r.raised,
                      frames |-> frames, block |-> r.block, wide |-> r.wide]
           /\ stream' = IF r.raised = "none" THEN "active" ELSE "aborted"
           /\ last' = Step("audio", "get_audio_chunk", NoArg,
                           IF r.raised = "none" THEN "ok" ELSE r.raised)
  /\ blocks' = blocks + 1
  /\ UNCHANGED <<cpu_usage, last_tap_time, tap_times, bench, calls>>

AudioCallback == AudioCallbackOf(Frames)

\* mutant of SetBpmHandler: the handler also recomputes the clock's
\* samples_per_beat for the new bpm
SetBpmRecompute(clock, x) ==
  IF ~Truthy(x) THEN [clock |-> clock, status |-> "400"]
  ELSE IF ~Float(x).ok THEN [clock |-> clock, status |-> "500"]
  ELSE IF Float(x).val.n = 0
    THEN [clock |-> [clock EXCEPT !.bpm = Float(x).val], status |-> "500"]
  ELSE [clock |-> [clock EXCEPT
                     !.bpm = Float(x).val,
                     !.samples_per_beat =
                        RDiv(RInt(clock.samplerate * SecondsPerMinute), Float(x).val)],
        status |-> "200"]

\* POST /set_bpm (app.py:50-58), on a web request thread
SetBpmHandler(clock, x) ==
  IF ~Truthy(x) THEN [clock |-> clock, status |-> "400"]
  ELSE IF ~Float(x).ok THEN [clock |-> clock, status |-> "500"]
  ELSE [clock |-> [clock EXCEPT !.bpm = Float(x).val], status |-> "200"]

SetBpm ==
  /\ stream # "setup"
  /\ \E x \in BpmInputs :
       \E r \in {SetBpmHandler(global_clock, x)} :
           /\ global_clock' = r.clock
           /\ last' = Step("web", "set_bpm", x, r.status)
  /\ UNCHANGED <<voices, cpu_usage, stream, out, blocks, last_tap_time, tap_times, bench, calls>>

RECURSIVE Sum(_)
Sum(s) == IF s = <<>> THEN 0 ELSE Head(s) + Sum(Tail(s))

\* MidiInputHandler.midi_callback (main.py:67-122) for a message received at
\* time.time() = t: [clock, last_tap_time, tap_times, status]
MidiCallback(clock, ltt, tts, msg, t) ==
  LET interval == t - ltt
      tt1 == Append(tts, interval)
      tt2 == IF Len(tt1) > MaxTapTimes THEN Tail(tt1) ELSE tt1
      same == [clock |-> clock, last_tap_time |-> ltt, tap_times |-> tts, status |-> "ignored"]
  IN  IF ~(msg.type = "note_on" /\ msg.note = TapNote /\ msg.velocity > 0) THEN same
      ELSE IF ltt = 0 THEN [same EXCEPT !.last_tap_time = t, !.status = "first"]
      ELSE IF Len(tt2) < MinTapTimes
        THEN [same EXCEPT !.last_tap_time = t, !.tap_times = tt2, !.status = "kept"]
      ELSE IF Sum(tt2) = 0
        THEN [same EXCEPT !.tap_times = tt2, !.status = "ZeroDivisionError"]
      ELSE [clock |-> [clock EXCEPT !.bpm = Rat(SecondsPerMinute * Len(tt2), Sum(tt2))],
            last_tap_time |-> t, tap_times |-> tt2, status |-> "bpm"]

\* time.time() does not run backwards between two taps
TapTimes == {t \in 1..MaxTime : t >= last_tap_time}

Deliver(thread, op, msg) ==
  /\ stream # "setup"
  /\ \E t \in TapTimes :
       \E r \in {MidiCallback(global_clock, last_tap_time, tap_times, msg, t)} :
           /\ global_clock' = r.clock
           /\ last_tap_time' = r.last_tap_time
           /\ tap_times' = r.tap_times
           /\ last' = Step(thread, op, NoArg, r.status)
  /\ UNCHANGED <<voices, cpu_usage, stream, out, blocks, bench, calls>>

\* the MIDI port's callback thread (main.py:62)
MidiPortCallback == \E msg \in MidiMessages : Deliver("midi", "midi_callback", msg)

\* GET /tap (app.py:41-48), on a web request thread
WebTap == Deliver("web", "tap", WebTapMessage)

\* the main loop (main.py:181-185)
MainLoop ==
  /\ stream # "setup"
  /\ \E c \in CpuReadings : cpu_usage' = [set |-> TRUE, value |-> c]
  /\ last' = Step("main", "cpu_usage", NoArg, "ok")
  /\ UNCHANGED <<global_clock, voices, stream, out, blocks, last_tap_time,
                 tap_times, bench, calls>>

Next ==
  \/ AddVoice
  \/ StartStream
  \/ AudioCallback
  \/ SetBpm
  \/ MidiPortCallback
  \/ WebTap
  \/ MainLoop

Spec == Init /\ [][Next]_vars

(***************************************************************************)
(* The concrete scenario of the specification's section 8: sample rate     *)
(* 44100, bpm 120, one voice over a 5-second tone (grain length 3528,      *)
(* spawn interval 1764), blocks of 4096 frames.                            *)
(***************************************************************************)
ScenarioFile == [data |-> Array(Tone, 5 * MainSamplerate), samplerate |-> MainSamplerate]
ScenarioFrames == {4096}

InitScenario ==
  /\ global_clock = NewGlobalClock(MainSamplerate, RInt(MainBpm))
  /\ voices = <<NewVoice(ScenarioFile)>>
  /\ cpu_usage = Unset
  /\ stream = "active"
  /\ out = NoOutput
  /\ blocks = 0
  /\ last_tap_time = 0
  /\ tap_times = <<>>
  /\ last = Step("main", "start", NoArg, "ok")
  /\ bench = NoBench
  /\ calls = NoCalls

ScenarioAudioCallback == AudioCallbackOf(ScenarioFrames)

NextScenario ==
  \/ ScenarioAudioCallback
  \/ SetBpm
  \/ MidiPortCallback
  \/ WebTap
  \/ MainLoop

SpecScenario == InitScenario /\ [][NextScenario]_vars

(***************************************************************************)
(* Mixing.  spawn_grain cannot run (SpawnCallback), so under Spec no voice *)
(* ever holds a grain.  SpecMix starts from the states a caller of         *)
(* engine.py reaches by placing Grain objects in a voice's active_grains   *)
(* (a plain list): an engine whose voices hold up to two fresh grains over *)
(* a loud source buffer, with the stream running.                          *)
(***************************************************************************)
LoudFiles == {[data |-> Array(<<RInt(32000)>>, 6), samplerate |-> 50],
              [data |-> Array(<<RInt(-32000)>>, 6), samplerate |-> 50]}
GrainStarts == {<<>>, <<0>>, <<2>>, <<0, 0>>, <<0, 2>>, <<2, 0>>, <<2, 2>>}

VoiceWithGrains(file, starts) ==
  [NewVoice(file) EXCEPT
     !.active_grains =
        [i \in 1..Len(starts) |->
           NewGrain(starts[i], GrainLength(file.samplerate, DefaultGrainLengthMs))],
     !.spawn_calls = Len(starts), !.spawned = Len(starts)]

MixVoiceSet == {VoiceWithGrains(f, st) : f \in LoudFiles, st \in GrainStarts}

InitMix ==
  /\ global_clock = NewGlobalClock(MainSamplerate, RInt(MainBpm))
  /\ voices \in {<<v>> : v \in MixVoiceSet} \cup {<<v, w>> : v \in MixVoiceSet, w \in MixVoiceSet}
  /\ cpu_usage = Unset
  /\ stream = "active"
  /\ out = NoOutput
  /\ blocks = 0
  /\ last_tap_time = 0
  /\ tap_times = <<>>
  /\ last = Step("main", "start", NoArg, "ok")
  /\ bench = NoBench
  /\ calls = NoCalls

NextMix == AudioCallback

SpecMix == InitMix /\ [][NextMix]_vars

(***************************************************************************)
(* A Grain on its own: Grain(buffer, start_pos, length, envelope) built    *)
(* over any buffer and then asked for chunks of any sizes.                 *)
(***************************************************************************)
BenchEnvelopes(length) == {Hanning(length), [i \in 1..length |-> RInt(1)]}

InitGrain ==
  /\ global_clock = NewGlobalClock(MainSamplerate, RInt(MainBpm))
  /\ voices = <<>>
  /\ cpu_usage = Unset
  /\ stream = "setup"
  /\ out = NoOutput
  /\ blocks = 0
  /\ last_tap_time = 0
  /\ tap_times = <<>>
  /\ last = Step("main", "init", NoArg, "ok")
  /\ calls = NoCalls
  /\ \E len \in 0..MaxBuf, start_pos \in 0..MaxBuf, length \in 0..MaxGrainLen :
       \E env \in BenchEnvelopes(length) :
         bench = [used |-> TRUE,
                  ad |-> Array(<<RInt(8), RInt(-4)>>, len),
                  env |-> env,
                  g |-> NewGrain(start_pos, length),
                  \* history of the get_chunk calls
                  size |-> 0, status |-> "new", returned |-> 0, before |-> 0,
                  total |-> 0]

\* grain.get_chunk(size)
GrainGetChunk ==
  /\ bench.used
  /\ \E size \in 0..MaxChunk :
       \E r \in {GetChunk(bench.ad, bench.env, bench.g, size)} :
         bench' = [bench EXCEPT !.ad = r.ad, !.g = r.g,
                     !.size = size, !.status = r.status,
                     !.returned = Len(r.chunk),
                     !.before = bench.g.current_pos,
                     !.total = @ + Len(r.chunk)]
  /\ UNCHANGED <<global_clock, voices, cpu_usage, stream, out, blocks,
                 last_tap_time, tap_times, last, calls>>

NextGrain == GrainGetChunk

SpecGrain == InitGrain /\ [][NextGrain]_vars

(***************************************************************************)
(* Tap tempo under concurrency.  midi_callback runs on the MIDI port's     *)
(* callback thread (main.py:62) and, through GET /tap, on web request      *)
(* threads (app.py:46), with no lock: an activation can be preempted       *)
(* between any two statements.  SpecTap runs the handler's tap branch      *)
(* (main.py:96-114) one statement at a time, per thread; the local         *)
(* variables of an activation live in calls.th[thread].                    *)
(***************************************************************************)
IsTap(msg) == msg.type = "note_on" /\ msg.note = TapNote /\ msg.velocity > 0

TapOp(th) == IF th = "midi" THEN "midi_callback" ELSE "tap"

\* the messages a thread hands to midi_callback
TapInputs(th) == IF th = "midi" THEN MidiMessages ELSE {WebTapMessage}

\* thread th moves to statement pc with its local variables set to loc
TapGoto(th, loc, pc) ==
  /\ calls' = [calls EXCEPT !.th[th] = [loc EXCEPT !.pc = pc]]
  /\ last' = Step(th, TapOp(th), NoArg, pc)

\* thread th leaves the handler
TapReturn(th, status) ==
  /\ calls' = [calls EXCEPT !.th[th] = Idle]
  /\ last' = Step(th, TapOp(th), NoArg, status)

\* main.py:67-100: a message arrives; for a tap, current_time = time.time()
TapBegin(th) ==
  /\ calls.th[th].pc = "idle"
  /\ calls.taps < MaxTaps
  /\ \E msg \in TapInputs(th) :
       IF ~IsTap(msg)
         THEN /\ calls' = [calls EXCEPT !.taps = @ + 1]
              /\ last' = Step(th, TapOp(th), NoArg, "ignored")
         ELSE \E t \in calls.now..MaxTime :
                /\ calls' = [calls EXCEPT
                               !.now = t, !.taps = @ + 1,
                               !.th[th] = [Idle EXCEPT !.pc = "L102",
                                                       !.current_time = t,
                                                       !.index = calls.taps + 1]]
                /\ last' = Step(th, TapOp(th), NoArg, "L102")
  /\ UNCHANGED <<global_clock, voices, cpu_usage, stream, out, blocks,
                 last_tap_time, tap_times, bench>>

\* main.py:102: if self.last_tap_time != 0
TapTest(th) ==
  /\ calls.th[th].pc = "L102"
  /\ TapGoto(th, calls.th[th], IF last_tap_time # 0 THEN "L103" ELSE "L114")
  /\ UNCHANGED <<global_clock, voices, cpu_usage, stream, out, blocks,
                 last_tap_time, tap_times, bench>>

\* main.py:103: interval = current_time - self.last_tap_time
TapInterval(th) ==
  /\ calls.th[th].pc = "L103"
  /\ TapGoto(th, [calls.th[th] EXCEPT
                    !.interval = calls.th[th].current_time - last_tap_time],
             "L104")
  /\ UNCHANGED <<global_clock, voices, cpu_usage, stream, out, blocks,
                 last_tap_time, tap_times, bench>>

\* main.py:104: self.tap_times.append(interval)
TapAppend(th) ==
  /\ calls.th[th].pc = "L104"
  /\ tap_times' = Append(tap_times, calls.th[th].interval)
  /\ TapGoto(th, calls.th[th], "L106")
  /\ UNCHANGED <<global_clock, voices, cpu_usage, stream, out, blocks,
                 last_tap_time, bench>>

\* main.py:106: if len(self.tap_times) > 4
TapTooMany(th) ==
  /\ calls.th[th].pc = "L106"
  /\ TapGoto(th, calls.th[th],
             IF Len(tap_times) > MaxTapTimes THEN "L107" ELSE "L109")
  /\ UNCHANGED <<global_clock, voices, cpu_usage, stream, out, blocks,
                 last_tap_time, tap_times, bench>>

\* main.py:107: self.tap_times.pop(0); IndexError on an empty list
TapPop(th) ==
  /\ calls.th[th].pc = "L107"
  /\ IF tap_times = <<>>
       THEN /\ TapReturn(th, "IndexError")
            /\ UNCHANGED tap_times
       ELSE /\ tap_times' = Tail(tap_times)
            /\ TapGoto(th, calls.th[th], "L109")
  /\ UNCHANGED <<global_clock, voices, cpu_usage, stream, out, blocks,
                 last_tap_time, bench>>

\* main.py:109: if len(self.tap_times) >= 2
TapEnough(th) ==
  /\ calls.th[th].pc = "L109"
  /\ TapGoto(th, calls.th[th],
             IF Len(tap_times) >= MinTapTimes THEN "L110" ELSE "L114")
  /\ UNCHANGED <<global_clock, voices, cpu_usage, stream, out, blocks,
                 last_tap_time, tap_times, bench>>

\* main.py:110-111: avg_interval = sum(tap_times) / len(tap_times);
\* new_bpm = 60 / avg_interval (ZeroDivisionError leaves the handler)
TapAverage(th) ==
  /\ calls.th[th].pc = "L110"
  /\ IF tap_times = <<>> \/ Sum(tap_times) = 0
       THEN TapReturn(th, "ZeroDivisionError")
       ELSE TapGoto(th, [calls.th[th] EXCEPT
                           !.new_bpm = Rat(SecondsPerMinute * Len(tap_times),
                                           Sum(tap_times))],
                    "L113")
  /\ UNCHANGED <<global_clock, voices, cpu_usage, stream, out, blocks,
                 last_tap_time, tap_times, bench>>

\* main.py:113: self.engine.global_clock.bpm = new_bpm
TapSetBpm(th) ==
  /\ calls.th[th].pc = "L113"
  /\ global_clock' = [global_clock EXCEPT !.bpm = calls.th[th].new_bpm]
  /\ calls' = [calls EXCEPT !.th[th].pc = "L114"]
  /\ last' = Step(th, TapOp(th), NoArg, "bpm")
  /\ UNCHANGED <<voices, cpu_usage, stream, out, blocks,
                 last_tap_time, tap_times, bench>>

\* main.py:114: self.last_tap_time = current_time
TapSetLast(th) ==
  /\ calls.th[th].pc = "L114"
  /\ last_tap_time' = calls.th[th].current_time
  /\ TapReturn(th, "done")
  /\ UNCHANGED <<global_clock, voices, cpu_usage, stream, out, blocks,
                 tap_times, bench>>

\* main.py:158-178 with no voice: the engine and the handler exist, the MIDI
\* callback is registered and the web thread runs
InitTap ==
  /\ global_clock = NewGlobalClock(MainSamplerate, RInt(MainBpm))
  /\ voices = <<>>
  /\ cpu_usage = Unset
  /\ stream = "active"
  /\ out = NoOutput
  /\ blocks = 0
  /\ last_tap_time = 0
  /\ tap_times = <<>>
  /\ last = Step("main", "start", NoArg, "ok")
  /\ bench = NoBench
  /\ calls = NoCalls

NextTap ==
  \/ \E th \in TapThreads : TapBegin(th)
  \/ \E th \in TapThreads : TapTest(th)
  \/ \E th \in TapThreads : TapInterval(th)
  \/ \E th \in TapThreads : TapAppend(th)
  \/ \E th \in TapThreads : TapTooMany(th)
  \/ \E th \in TapThreads : TapPop(th)
  \/ \E th \in TapThreads : TapEnough(th)
  \/ \E th \in TapThreads : TapAverage(th)
  \/ \E th \in TapThreads : TapSetBpm(th)
  \/ \E th \in TapThreads : TapSetLast(th)

SpecTap == InitTap /\ [][NextTap]_vars

(***************************************************************************)
(* Claims.                                                                 *)
(***************************************************************************)
InRange(x) == Int16Min <= x /\ x <= Int16Max

\* C1: every Engine.get_audio_chunk(frames) call, after any earlier ticks,
\* voice additions and bpm writes, returns (it does not raise) a block of
\* exactly `frames` samples, each within the int16 output range.
C1_BlockContract ==
  out.status # "none" =>
    /\ out.status = "ok"
    /\ Len(out.block) = out.frames
    /\ \A i \in 1..Len(out.block) : InRange(out.block[i])

\* C2: wherever the sum of all grains of all voices at an output index lies
\* outside the output range, the returned sample is the range bound on the
\* same side (one clamp of a wide sum, no wraparound modulo 2^16).
C2_SymmetricClip ==
  out.status = "ok" =>
    \A i \in 1..Len(out.block) :
      /\ out.wide[i] > Int16Max => out.block[i] = Int16Max
      /\ out.wide[i] < Int16Min => out.block[i] = Int16Min

\* C3: a voice whose source buffer is longer than one grain and that has
\* generated at least two scheduler intervals of samples has spawned at
\* least one grain (its spawn callback has completed).
C3_SpawnedAfterTwoIntervals ==
  \A i \in 1..Len(voices) :
    ( /\ voices[i].audio_data.len > voices[i].grain_length
      /\ RLeq(RMul(RInt(2), voices[i].grain_scheduler.samples_per_grain_interval),
              RInt(voices[i].generated)) )
    => voices[i].spawned >= 1

Producing(v) ==
  Cardinality({k \in 1..Len(v.active_grains) :
                 v.active_grains[k].current_pos < v.active_grains[k].length})

\* C4: overlap invariant: for a voice whose grain length exceeds its spawn
\* interval, at every tick after the first spawn the number of grains that
\* still produce samples is 1 or 2.
C4_Overlap ==
  \A i \in 1..Len(voices) :
    ( /\ RLeq(voices[i].grain_scheduler.samples_per_grain_interval,
              RInt(voices[i].grain_length - 1))
      /\ voices[i].spawn_calls >= 1 )
    => Producing(voices[i]) \in {1, 2}

\* C5: for any grain and any get_chunk(size) call with size > 0: the call
\* does not fail; the cursor advances by exactly the number of samples
\* returned; a request that runs past the buffer's end returns the samples up
\* to the end and leaves the grain exhausted; and a grain that lies within
\* its buffer has returned exactly `length` samples when it is exhausted.
C5_GrainContract ==
  (bench.used /\ bench.status # "new" /\ bench.size > 0) =>
    /\ bench.status # "ValueError"
    /\ bench.status = "chunk" =>
         /\ bench.g.current_pos - bench.before = bench.returned
         /\ bench.g.start_pos + bench.before
              + Min(bench.size, bench.g.length - bench.before) > bench.ad.len
            => /\ bench.g.start_pos + bench.before + bench.returned
                    = IF bench.g.start_pos + bench.before > bench.ad.len
                        THEN bench.g.start_pos + bench.before ELSE bench.ad.len
               /\ GetChunk(bench.ad, bench.env, bench.g, 1).status = "None"
    /\ ( /\ bench.g.start_pos + bench.g.length <= bench.ad.len
         /\ bench.g.current_pos = bench.g.length )
       => bench.total = bench.g.length

BpmWritten ==
  \/ last.op = "set_bpm" /\ last.status = "200"
  \/ last.op \in {"midi_callback", "tap"} /\ last.status = "bpm"

\* C6: a bpm change to b > 0 followed immediately by a clock tick of s frames
\* raises current_beat by exactly s / (samplerate * 60 / b).
C6_TempoInvariant ==
  [][ ( /\ BpmWritten
        /\ RPos(global_clock.bpm)
        /\ last'.op = "get_audio_chunk" )
      => RSub(global_clock'.current_beat, global_clock.current_beat)
           = Rat(out'.frames * global_clock.bpm.n,
                 global_clock.bpm.d * global_clock.samplerate * SecondsPerMinute)
    ]_vars

\* C7: in every reachable state bpm > 0, and a request to set the bpm to
\* zero or to a negative value is answered with an error.
C7_BpmPositive ==
  /\ RPos(global_clock.bpm)
  /\ ( /\ last.op = "set_bpm"
       /\ Float(last.arg).ok
       /\ Float(last.arg).val.n <= 0 ) => last.status # "200"

\* C8: in the concrete scenario, after one single get_audio_chunk(4096) on a
\* fresh engine the voice holds at least one active grain and current_beat
\* is 4096/22050.
C8_Scenario ==
  (blocks = 1 /\ out.frames = 4096) =>
    /\ Len(voices[1].active_grains) >= 1
    /\ global_clock.current_beat = Rat(4096, 22050)

\* C9: an engine with zero voices returns an all-zero block of the requested
\* length from every get_audio_chunk call.
C9_Silence ==
  (Len(voices) = 0 /\ out.status # "none") =>
    /\ out.status = "ok"
    /\ Len(out.block) = out.frames
    /\ \A i \in 1..Len(out.block) : out.block[i] = 0

\* a second block of four zero samples from an engine without voices, after
\* the bpm was changed
C9_Witness ==
  /\ Len(voices) = 0
  /\ blocks = 2
  /\ out.status = "ok"
  /\ out.frames = 4
  /\ global_clock.bpm # RInt(MainBpm)

\* everything of the engine's clock but bpm
ClockRest(c) == <<c.samplerate, c.samples_per_beat, c.current_sample, c.current_beat>>

\* C10 as stated: while the stream runs, a step of a thread other than the
\* audio thread writes no field of the engine other than bpm.
C10_OnlyBpm ==
  [][ (stream # "setup" /\ last'.thread # "audio")
      => /\ voices' = voices
         /\ ClockRest(global_clock') = ClockRest(global_clock)
         /\ cpu_usage' = cpu_usage
    ]_vars

\* C10 as amended: while the stream runs, a step of a thread other than the
\* audio thread writes no field of the engine other than bpm and cpu_usage:
\* voices, their schedulers, grains and source buffers, and the clock's
\* sample count and beat are written by the audio thread only.
C10_OnlyBpmAndCpuUsage ==
  [][ (stream # "setup" /\ last'.thread # "audio")
      => /\ voices' = voices
         /\ ClockRest(global_clock') = ClockRest(global_clock)
    ]_vars

\* the MIDI thread has just written a tapped bpm into the clock of an engine
\* that holds a voice, has played a block and had its cpu_usage written
C10_Witness ==
  /\ last.thread = "midi"
  /\ last.status = "bpm"
  /\ global_clock.bpm # RInt(MainBpm)
  /\ Len(voices) >= 1
  /\ blocks >= 1
  /\ cpu_usage.set

\* C11: in every reachable state of the clock samples_per_beat is
\* samplerate * 60 / bpm for the current bpm, and current_beat is
\* current_sample / samples_per_beat.
C11_ClockInvariant ==
  /\ RPos(global_clock.bpm) =>
       global_clock.samples_per_beat
         = RDiv(RInt(global_clock.samplerate * SecondsPerMinute), global_clock.bpm)
  /\ global_clock.current_beat
       = RDiv(RInt(global_clock.current_sample), global_clock.samples_per_beat)

\* every element of the array holds the value it was loaded with
Pristine(ad) ==
  \A i \in 0..(ad.len - 1) : Sample(ad, i) = Sample(Array(ad.period, ad.len), i)

\* C12: a source buffer is never mutated after load: whatever get_chunk calls
\* were made, every element of the buffer keeps the value it had at
\* construction.
C12_BufferImmutable ==
  /\ bench.used => Pristine(bench.ad)
  /\ \A i \in 1..Len(voices) : Pristine(voices[i].audio_data)

\* C13: after completed blocks totalling S samples a voice's scheduler has
\* issued floor(S / interval) spawns, however the samples were split into
\* blocks, and its countdown is what adding the interval at every crossing
\* leaves: (spawns + 1) * interval - S.
C13_SpawnsBySamples ==
  stream # "aborted" =>
    \A i \in 1..Len(voices) :
      voices[i].generated > 0 =>
      /\ voices[i].spawn_calls
           = (voices[i].generated * voices[i].grain_scheduler.samples_per_grain_interval.d)
               \div voices[i].grain_scheduler.samples_per_grain_interval.n
      /\ voices[i].grain_scheduler.samples_until_next_grain
           = RSub(RMul(RInt(voices[i].spawn_calls + 1),
                       voices[i].grain_scheduler.samples_per_grain_interval),
                  RInt(voices[i].generated))

\* C14: after every completed scheduler tick the countdown lies in
\* 0..interval, and it has been lowered by one per generated sample: the
\* countdown plus the samples generated is a whole number of intervals.
C14_Countdown ==
  stream # "aborted" =>
    \A i \in 1..Len(voices) :
      voices[i].generated > 0 =>
      /\ RLeq(RInt(0), voices[i].grain_scheduler.samples_until_next_grain)
      /\ RLeq(voices[i].grain_scheduler.samples_until_next_grain,
              voices[i].grain_scheduler.samples_per_grain_interval)
      /\ \E k \in 1..(voices[i].generated + 1) :
           RSub(RMul(RInt(k), voices[i].grain_scheduler.samples_per_grain_interval),
                RInt(voices[i].generated))
             = voices[i].grain_scheduler.samples_until_next_grain

\* C15: for every grain, after any get_chunk calls, 0 <= current_pos <=
\* length; no call lowers current_pos; and a call made on an exhausted grain
\* (current_pos == length) returns no samples and leaves current_pos
\* unchanged.
C15_GrainCursor ==
  bench.used =>
    /\ 0 <= bench.g.current_pos
    /\ bench.g.current_pos <= bench.g.length
    /\ bench.status # "new" => bench.before <= bench.g.current_pos
    /\ (bench.status # "new" /\ bench.before = bench.g.length) =>
         /\ bench.status = "None"
         /\ bench.returned = 0
         /\ bench.g.current_pos = bench.before

\* a grain of at least two samples that has delivered all of them is asked
\* for more
C15_Witness ==
  /\ bench.used
  /\ bench.g.length >= 2
  /\ bench.total = bench.g.length
  /\ bench.before = bench.g.length
  /\ bench.size > 0
  /\ bench.status = "None"

\* C16: at the end of every Voice.get_audio_chunk call no grain whose cursor
\* has reached its length remains in active_grains.
C16_ExhaustedRemoved ==
  out.status = "ok" =>
    \A i \in 1..Len(voices) :
      \A k \in 1..Len(voices[i].active_grains) :
        voices[i].active_grains[k].current_pos # voices[i].active_grains[k].length

\* the spawn position the claim gives after a spawn at `position`
C17_Position(position, grain_length, len) ==
  IF position + Trunc(RMul(RInt(grain_length), Rat(1, 2))) + grain_length > len
    THEN 0
    ELSE position + Trunc(RMul(RInt(grain_length), Rat(1, 2)))

\* C17: every spawn appends a grain that starts at the voice's spawn
\* position, then moves the position on by half a grain, back to 0 exactly
\* when position + grain_length > len(audio_data); and in a buffer at least
\* one grain long every grain lies within the buffer.
C17_SpawnRule ==
  [][ \A i \in 1..Len(voices) :
        voices'[i].spawn_calls = voices[i].spawn_calls + 1 =>
          /\ Len(voices'[i].active_grains) >= 1
          /\ voices'[i].active_grains[Len(voices'[i].active_grains)].start_pos
               = voices[i].position
          /\ voices'[i].position
               = C17_Position(voices[i].position, voices[i].grain_length,
                              voices[i].audio_data.len)
          /\ voices[i].audio_data.len >= voices[i].grain_length =>
               \A k \in 1..Len(voices'[i].active_grains) :
                 voices'[i].active_grains[k].start_pos
                   + voices'[i].active_grains[k].length <= voices[i].audio_data.len
    ]_vars

\* C18: an engine all of whose voices have a source buffer shorter than one
\* grain returns an all-zero block of the requested length from every call,
\* raises nothing, and its voices never hold a grain.
C18_ShortBufferSilent ==
  ( /\ Len(voices) >= 1
    /\ \A i \in 1..Len(voices) : voices[i].audio_data.len < voices[i].grain_length
    /\ out.status # "none" )
  => /\ out.status = "ok"
     /\ Len(out.block) = out.frames
     /\ \A i \in 1..Len(out.block) : out.block[i] = 0
     /\ \A i \in 1..Len(voices) : voices[i].active_grains = <<>>

\* C19: when one voice fails during an Engine.get_audio_chunk call (its spawn
\* callback was invoked and did not complete), every other voice is still
\* processed for that block and the engine still returns a block of
\* `frames` samples.
C19_FailureIsolated ==
  [][ \A i, j \in 1..Len(voices) :
        ( /\ i # j
          /\ last'.op = "get_audio_chunk"
          /\ voices'[i].spawn_calls - voices'[i].spawned
               > voices[i].spawn_calls - voices[i].spawned )
        => /\ out'.status = "ok"
           /\ Len(out'.block) = out'.frames
           /\ voices'[j].generated = voices[j].generated + out'.frames
    ]_vars

\* C20: whenever midi_callback writes a bpm, on whichever thread and however
\* the activations interleave, tap_times holds between 2 and 4 intervals and
\* the writing activation is not the one that handled the first tap.
C20_TapWindow ==
  last.status = "bpm" =>
    /\ Len(tap_times) >= MinTapTimes
    /\ Len(tap_times) <= MaxTapTimes
    /\ calls.th[last.thread].index # 1

=============================================================================
